---------------------------- MODULE Spec2Model ----------------------------
(***************************************************************************)
(* A model of the keyword volume estimation engine in app/services.py:     *)
(* the SQLite result cache, the two source adapters, the heuristic         *)
(* estimator, the orchestrator get_volume and clear_cache.                 *)
(*                                                                         *)
(* Keywords are sequences of one-character strings.  Time is counted in    *)
(* hours.  A call of get_volume is taken in the steps at which it touches  *)
(* the shared database file: the cache lookup, and after a miss the fetch  *)
(* with the cache write that follows it (the fetch touches nothing shared, *)
(* so it is taken together with the write); clear_cache in its two steps,  *)
(* os.remove and _init_database.  Fractions are exact rationals scaled to  *)
(* integers.                                                               *)
(***************************************************************************)
EXTENDS Integers, Sequences, FiniteSets, TLC

VARIABLES now, dbFile, rows, storageUp, pc, call, log, probe

vars == <<now, dbFile, rows, storageUp, pc, call, log, probe>>

-----------------------------------------------------------------------------
(* Bounds of the model *)

MaxTime == 36
MaxOps == 3
NumProcs == 2

TickSteps == {12}

Procs == 1..NumProcs
MainProc == CHOOSE p \in Procs : \A q \in Procs : p <= q

-----------------------------------------------------------------------------
(* Configuration: app/config.py *)

SUPPORTED_COUNTRIES == {"US", "UK", "CA", "SA"}

CachedMethods == {"google_trends", "amazon_autocomplete", "combined"}

\* services.py imports these two flags; their defaults follow
\* DATA_SOURCES[...]["enabled"], which is "true" unless the environment says otherwise
GOOGLE_TRENDS_ENABLED == TRUE
AMAZON_AUTOCOMPLETE_ENABLED == TRUE

\* timedelta(hours=24) in _get_cached_volume
TTLHours == 24

-----------------------------------------------------------------------------
(* Text helpers *)

Max(a, b) == IF a >= b THEN a ELSE b

\* Python's int(): truncation towards zero of the exact quotient n / d, d > 0
TruncDiv(n, d) == IF n >= 0 THEN n \div d ELSE -((-n) \div d)

RECURSIVE SumSeq(_)
SumSeq(s) == IF s = <<>> THEN 0 ELSE Head(s) + SumSeq(Tail(s))

LowerChar(c) ==
    CASE c = "A" -> "a" [] c = "B" -> "b" [] c = "E" -> "e" [] c = "H" -> "h"
      [] c = "O" -> "o" [] c = "S" -> "s" [] c = "T" -> "t" [] c = "W" -> "w"
      [] OTHER -> c

\* str.lower()
Lower(kw) == [i \in 1..Len(kw) |-> LowerChar(kw[i])]

IsSpace(c) == c \in {" ", "\t", "\n"}

\* str.strip()
RECURSIVE LStrip(_)
LStrip(kw) == IF kw # <<>> /\ IsSpace(Head(kw)) THEN LStrip(Tail(kw)) ELSE kw

RECURSIVE RStrip(_)
RStrip(kw) ==
    IF kw # <<>> /\ IsSpace(kw[Len(kw)]) THEN RStrip(SubSeq(kw, 1, Len(kw) - 1)) ELSE kw

Strip(kw) == RStrip(LStrip(kw))

\* word in keyword (substring test)
Contains(kw, w) ==
    \E i \in 1..(Len(kw) - Len(w) + 1) : SubSeq(kw, i, i + Len(w) - 1) = w

QuestionWords ==
    { <<"h","o","w">>, <<"w","h","a","t">>, <<"w","h","y">>,
      <<"w","h","e","n">>, <<"w","h","e","r","e">> }

CommercialWords ==
    { <<"b","e","s","t">>, <<"t","o","p">>, <<"r","e","v","i","e","w">>,
      <<"g","u","i","d","e">> }

PriceWords ==
    { <<"f","r","e","e">>, <<"c","h","e","a","p">>,
      <<"d","i","s","c","o","u","n","t">> }

-----------------------------------------------------------------------------
(* Heuristic estimator: _fallback_volume_estimate *)

\* random.uniform(0.7, 1.4), in hundredths; the sample points drawn here
Jitters == {70, 139}

\* length_factor without max(0.3, ...)
LengthFactorUnfloored(kw) == 100 - (Len(kw) - 3) * 15

\* length_factor, in hundredths
LengthFactor(kw) == Max(30, 100 - (Len(kw) - 3) * 15)

\* country_multipliers.get(country, 1.0), in tenths
CountryMultiplier(country) ==
    CASE country = "US" -> 10
      [] country = "UK" -> 4
      [] country = "CA" -> 3
      [] country = "SA" -> 2
      [] OTHER -> 10

\* base_volume after the three keyword-type adjustments: 1000 * (q/10) * (c/10) * (p/10)
BaseVolume(kw) ==
    LET q == IF \E w \in QuestionWords : Contains(Lower(kw), w) THEN 15 ELSE 10
        c == IF \E w \in CommercialWords : Contains(Lower(kw), w) THEN 13 ELSE 10
        p == IF \E w \in PriceWords : Contains(Lower(kw), w) THEN 12 ELSE 10
    IN  q * c * p

\* the product with neither floor: no max(0.3, ...) on the length factor and no
\* max(volume, 10) on the result
FallbackVolumeEstimateUnfloored(kw, country, jitter) ==
    TruncDiv(BaseVolume(kw) * (100 - (Len(kw) - 3) * 15) * CountryMultiplier(country) * jitter,
             100 * 10 * 100)

FallbackVolumeEstimate(kw, country, jitter) ==
    LET volume == (BaseVolume(kw) * LengthFactor(kw) * CountryMultiplier(country) * jitter)
                      \div (100 * 10 * 100)
    IN  Max(volume, 10)

-----------------------------------------------------------------------------
(* Source adapters.  An adapter's result is [raised, value, fallback]:       *)
(* raised is TRUE when an exception leaves the function, fallback when the   *)
(* value came from _fallback_volume_estimate.                               *)

Returned(v) == [raised |-> FALSE, value |-> v, fallback |-> FALSE]
FellBack(v) == [raised |-> FALSE, value |-> v, fallback |-> TRUE]
Raised == [raised |-> TRUE, value |-> 0, fallback |-> FALSE]

\* What the body of the try block makes of a response:
\* "value" (a return inside the try), "none" (falls through to the return after
\* the if), "exception" (something in the try block raised).
Signal(v) == [kind |-> "value", value |-> v]
NoSignal == [kind |-> "none", value |-> 0]
Exception == [kind |-> "exception", value |-> 0]

\* A timeline point is [tag, v]: tag "num" (int() accepts value[0]), "blank"
\* (value[0] == ""), "junk" (int() raises ValueError)
Num(v) == [tag |-> "num", v |-> v]
BlankPoint == [tag |-> "blank", v |-> 0]
JunkPoint == [tag |-> "junk", v |-> 0]

\* Responses of the trends service: requests.get raising (connection error,
\* timeout), a status other than 200, a body json.loads rejects, a body without
\* default.timelineData, and a timeline.
TrendsResponses ==
    { [kind |-> "neterr", timeline |-> <<>>],
      [kind |-> "timeout", timeline |-> <<>>],
      [kind |-> "status", timeline |-> <<>>],
      [kind |-> "badjson", timeline |-> <<>>],
      [kind |-> "notimeline", timeline |-> <<>>],
      [kind |-> "timeline", timeline |-> <<>>],
      [kind |-> "timeline", timeline |-> <<BlankPoint>>],
      [kind |-> "timeline", timeline |-> <<Num(1), JunkPoint>>],
      [kind |-> "timeline", timeline |-> <<Num(1), Num(2), Num(3)>>] }

\* volumes = [int(point["value"][0]) for point in timeline if point["value"][0] != ""]
RECURSIVE TimelineVolumes(_)
TimelineVolumes(timeline) ==
    IF timeline = <<>> THEN <<>>
    ELSE IF Head(timeline).tag = "blank" THEN TimelineVolumes(Tail(timeline))
    ELSE <<Head(timeline).v>> \o TimelineVolumes(Tail(timeline))

TrendsSignal(resp) ==
    IF resp.kind \in {"neterr", "timeout", "badjson"} THEN Exception
    ELSE IF resp.kind \in {"status", "notimeline"} THEN NoSignal
    ELSE IF resp.timeline = <<>> THEN NoSignal
    ELSE IF \E i \in 1..Len(resp.timeline) : resp.timeline[i].tag = "junk" THEN Exception
    ELSE LET volumes == TimelineVolumes(resp.timeline)
         IN  IF volumes = <<>> THEN NoSignal
             ELSE Signal(TruncDiv(SumSeq(volumes) * 1000, Len(volumes)))

\* _get_google_trends_volume without its except clause: an exception in the try
\* block leaves the function
GetGoogleTrendsVolumeUncaught(kw, country, resp, jitter) ==
    LET s == TrendsSignal(resp)
    IN  IF s.kind = "value" THEN Returned(s.value)
        ELSE IF s.kind = "exception" THEN Raised
        ELSE FellBack(FallbackVolumeEstimate(kw, country, jitter))

\* _get_google_trends_volume: the value of the try block, else the heuristic
GetGoogleTrendsVolume(kw, country, resp, jitter) ==
    LET s == TrendsSignal(resp)
    IN  IF s.kind = "value" THEN Returned(s.value)
        ELSE FellBack(FallbackVolumeEstimate(kw, country, jitter))

\* Responses of the autocomplete service: the same failures, and a list of
\* suggestions; a suggestion is the text of its "value"
AmazonResponses ==
    { [kind |-> "neterr", suggestions |-> <<>>],
      [kind |-> "timeout", suggestions |-> <<>>],
      [kind |-> "status", suggestions |-> <<>>],
      [kind |-> "badjson", suggestions |-> <<>>],
      [kind |-> "ok", suggestions |-> <<>>],
      [kind |-> "ok", suggestions |-> << <<"s","e","o","s">> >>],
      [kind |-> "ok", suggestions |-> << <<"s","e","o","s">>, <<"S","E","O">> >>] }

\* a list of n suggestions with the keyword "seo", in capitals, at index i (from
\* 0, i < n) and again in the last place, the others not the keyword
MatchAt(i, n) ==
    [kind |-> "ok",
     suggestions |-> [k \in 1..n |->
                         IF k = i + 1 \/ k = n THEN <<"S","E","O">>
                         ELSE <<"s","e","o","s">>]]

\* the index of the last suggestion equal to the keyword: a loop that does not
\* return at the first match
LastMatch(kw, suggestions) ==
    LET hits == {i \in 1..Len(suggestions) : Lower(suggestions[i]) = Lower(kw)}
    IN  IF hits = {} THEN -1
        ELSE (CHOOSE i \in hits : \A j \in hits : i >= j) - 1

\* the index, from 0, of the first suggestion equal to the keyword, lower-cased;
\* -1 when there is none
FirstMatch(kw, suggestions) ==
    LET hits == {i \in 1..Len(suggestions) : Lower(suggestions[i]) = Lower(kw)}
    IN  IF hits = {} THEN -1
        ELSE (CHOOSE i \in hits : \A j \in hits : i <= j) - 1

AmazonSignal(kw, resp) ==
    IF resp.kind \in {"neterr", "timeout", "badjson"} THEN Exception
    ELSE IF resp.kind = "status" THEN NoSignal
    ELSE IF resp.suggestions = <<>> THEN NoSignal
    ELSE LET i == FirstMatch(kw, resp.suggestions)
         IN  IF i < 0 THEN NoSignal
             ELSE Signal(TruncDiv(10000 * (10 - i), 10))

\* _get_amazon_autocomplete_volume without its except clause
GetAmazonAutocompleteVolumeUncaught(kw, country, resp, jitter) ==
    LET s == AmazonSignal(kw, resp)
    IN  IF s.kind = "value" THEN Returned(s.value)
        ELSE IF s.kind = "exception" THEN Raised
        ELSE FellBack(FallbackVolumeEstimate(kw, country, jitter))

\* _get_amazon_autocomplete_volume
GetAmazonAutocompleteVolume(kw, country, resp, jitter) ==
    LET s == AmazonSignal(kw, resp)
    IN  IF s.kind = "value" THEN Returned(s.value)
        ELSE FellBack(FallbackVolumeEstimate(kw, country, jitter))

-----------------------------------------------------------------------------
(* Result cache: the table keyword_volumes of data/keyword_volumes.db.      *)
(* A row is [keyword, country, method, volume, created_at]; the id column   *)
(* is never read.  dbFile is "absent" (no file), "blank" (a file without    *)
(* the table, as sqlite3.connect creates it) or "ready" (_init_database has *)
(* run on it).                                                              *)

Row(kw, country, method, volume, t) ==
    [keyword |-> kw, country |-> country, method |-> method,
     volume |-> volume, created_at |-> t]

SameKey(r, kw, country, method) ==
    r.keyword = kw /\ r.country = country /\ r.method = method

\* the comparison turned round: created_at < cutoff_time
FreshRowsInverted(rws, kw, country, method, t) ==
    {r \in rws : SameKey(r, kw, country, method) /\ r.created_at < t - TTLHours}

\* the comparison made inclusive: created_at >= cutoff_time
FreshRowsInclusive(rws, kw, country, method, t) ==
    {r \in rws : SameKey(r, kw, country, method) /\ r.created_at >= t - TTLHours}

\* the lookup without its age condition
FreshRowsAnyAge(rws, kw, country, method, t) ==
    {r \in rws : SameKey(r, kw, country, method)}

\* WHERE keyword = ? AND country = ? AND method = ? AND created_at > cutoff_time
FreshRows(rws, kw, country, method, t) ==
    {r \in rws : SameKey(r, kw, country, method) /\ r.created_at > t - TTLHours}

\* ORDER BY created_at DESC LIMIT 1
Newest(rs) == CHOOSE r \in rs : \A q \in rs : r.created_at >= q.created_at

\* _get_cached_volume: [found, volume]; found = FALSE is None
GetCachedVolume(rws, kw, country, method, t) ==
    LET rs == FreshRows(rws, kw, country, method, t)
    IN  IF rs = {} THEN [found |-> FALSE, volume |-> 0]
        ELSE [found |-> TRUE, volume |-> Newest(rs).volume]

\* a plain INSERT into a table without the UNIQUE constraint
CacheVolumeInsertOnly(rws, kw, country, volume, method, t) ==
    rws \cup {Row(kw, country, method, volume, t)}

\* _cache_volume without conn.commit(): the row is lost when the connection closes
CacheVolumeNoCommit(rws, kw, country, volume, method, t) == rws

\* INSERT OR IGNORE: the row a key already has is kept, the first writer wins
CacheVolumeKeepFirst(rws, kw, country, volume, method, t) ==
    IF \E r \in rws : SameKey(r, kw, country, method) THEN rws
    ELSE rws \cup {Row(kw, country, method, volume, t)}

\* INSERT OR REPLACE under UNIQUE(keyword, country): the write replaces the rows
\* of every method of the keyword and country
CacheVolumeAllMethods(rws, kw, country, volume, method, t) ==
    {r \in rws : ~(r.keyword = kw /\ r.country = country)}
        \cup {Row(kw, country, method, volume, t)}

\* a write that first deletes every row of 24 hours or more, whatever its key
CacheVolumePurging(rws, kw, country, volume, method, t) ==
    {r \in rws : ~SameKey(r, kw, country, method) /\ r.created_at > t - TTLHours}
        \cup {Row(kw, country, method, volume, t)}

\* _cache_volume: INSERT OR REPLACE under UNIQUE(keyword, country, method)
CacheVolume(rws, kw, country, volume, method, t) ==
    {r \in rws : ~SameKey(r, kw, country, method)}
        \cup {Row(kw, country, method, volume, t)}

\* sqlite3.connect + execute succeed: the storage answers and the table exists
DbUsable == storageUp /\ dbFile = "ready"

\* the file after a failed statement: connect has created it if it was absent
FileAfterFailure == IF storageUp /\ dbFile = "absent" THEN "blank" ELSE dbFile

-----------------------------------------------------------------------------
(* Orchestrator *)

\* get_volume_google_trends / get_volume_amazon_autocomplete / get_volume_combined
\* after a cache miss: [raised, value, sources, heur], where sources are the
\* adapters called and heur counts the calls of _fallback_volume_estimate
Computed(v, srcs, h) == [raised |-> FALSE, value |-> v, sources |-> srcs, heur |-> h]
ComputeRaised(srcs, h) == [raised |-> TRUE, value |-> 0, sources |-> srcs, heur |-> h]

Heur(r) == IF r.fallback THEN 1 ELSE 0

\* the results an adapter call can have, over the responses of its service and
\* the jitter of the heuristic
TrendsResults(kw, country) ==
    {GetGoogleTrendsVolume(kw, country, resp, j) : resp \in TrendsResponses, j \in Jitters}

AmazonResults(kw, country) ==
    {GetAmazonAutocompleteVolume(kw, country, resp, j) : resp \in AmazonResponses, j \in Jitters}

\* t, a: the results of the adapter calls; jc: the jitter of the combination's
\* own heuristic call
ComputeGoogleTrends(t) ==
    IF t.raised THEN ComputeRaised({"google_trends"}, 0)
    ELSE Computed(t.value, {"google_trends"}, Heur(t))

ComputeAmazonAutocomplete(a) ==
    IF a.raised THEN ComputeRaised({"amazon_autocomplete"}, 0)
    ELSE Computed(a.value, {"amazon_autocomplete"}, Heur(a))

\* a disabled source counted as a volume of zero: the sum is always divided by two
CombineVolumesZeroFilled(kw, country, gt, az, t, a, jc) ==
    LET tv == IF gt /\ ~t.raised THEN t.value ELSE 0
        av == IF az /\ ~a.raised THEN a.value ELSE 0
        srcs == (IF gt THEN {"google_trends"} ELSE {})
                  \cup (IF az THEN {"amazon_autocomplete"} ELSE {})
        h == (IF gt THEN Heur(t) ELSE 0) + (IF az THEN Heur(a) ELSE 0)
    IN  IF ~gt /\ ~az
        THEN Computed(FallbackVolumeEstimate(kw, country, jc), srcs, h + 1)
        ELSE Computed(TruncDiv(tv + av, 2), srcs, h)

\* get_volume_combined after the miss, under the flags gt (GOOGLE_TRENDS_ENABLED)
\* and az (AMAZON_AUTOCOMPLETE_ENABLED)
CombineVolumes(kw, country, gt, az, t, a, jc) ==
    LET tv == IF gt /\ ~t.raised THEN <<t.value>> ELSE <<>>
        av == IF az /\ ~a.raised THEN <<a.value>> ELSE <<>>
        volumes == tv \o av
        srcs == (IF gt THEN {"google_trends"} ELSE {})
                  \cup (IF az THEN {"amazon_autocomplete"} ELSE {})
        h == (IF gt THEN Heur(t) ELSE 0) + (IF az THEN Heur(a) ELSE 0)
    IN  IF volumes = <<>>
        THEN Computed(FallbackVolumeEstimate(kw, country, jc), srcs, h + 1)
        ELSE Computed(TruncDiv(SumSeq(volumes), Len(volumes)), srcs, h)

ComputeCombined(kw, country, t, a, jc) ==
    CombineVolumes(kw, country, GOOGLE_TRENDS_ENABLED, AMAZON_AUTOCOMPLETE_ENABLED, t, a, jc)

ComputeVolume(method, kw, country, t, a, jc) ==
    CASE method = "google_trends" -> ComputeGoogleTrends(t)
      [] method = "amazon_autocomplete" -> ComputeAmazonAutocomplete(a)
      [] OTHER -> ComputeCombined(kw, country, t, a, jc)

-----------------------------------------------------------------------------
(* State *)

KwSeo == <<"s","e","o">>
KwEmpty == <<>>

\* the requests callers make
KwBlank == <<" ">>
CallKeywords == {KwSeo, KwEmpty, KwBlank}
CallCountries == {"US", "ZZ"}
CallMethods == {"combined", "google_trends", "amazon_autocomplete", "fallback", "bogus"}

NoCall ==
    [kw |-> <<>>, country |-> "", method |-> "", begun |-> 0, at |-> 0,
     value |-> 0, sources |-> {}, heur |-> 0]

\* log records every finished call, in the order of their returns: what was
\* asked (op, kw, country, method), when (begun: the number of calls that had
\* returned when it started; at: the time it was made), what came back (status, value) and what it did on the way (hit: answered
\* from the cache; looked: ran the cache SELECT; sources: adapters called; heur:
\* heuristic evaluations; wrote: committed a row; computedAt: created_at of the row
\* that holds the returned value).
Entry(c, status, value, hit, looked, wrote, computedAt) ==
    [op |-> "estimate", kw |-> c.kw, country |-> c.country, method |-> c.method,
     begun |-> c.begun, at |-> c.at, status |-> status, value |-> value,
     hit |-> hit, looked |-> looked, sources |-> c.sources, heur |-> c.heur,
     wrote |-> wrote, computedAt |-> computedAt]

ClearEntry(c, status, value) ==
    [op |-> "clear", kw |-> <<>>, country |-> "", method |-> "",
     begun |-> c.begun, at |-> c.at, status |-> status, value |-> value,
     hit |-> FALSE, looked |-> FALSE, sources |-> {}, heur |-> 0,
     wrote |-> FALSE, computedAt |-> 0]

Active == {q \in Procs : pc[q] # "idle"}

Started == Len(log) + Cardinality(Active)

NewCall(kw, country, method) ==
    [NoCall EXCEPT !.kw = kw, !.country = country, !.method = method,
                   !.begun = Len(log), !.at = now]

\* probe holds the arguments and the result of one call of a function taken on
\* its own (SpecAdapters); the service itself never touches it
NoProbe ==
    [fn |-> "none", kw |-> <<>>, country |-> "", resp |-> <<>>, jitter |-> 0,
     done |-> FALSE, result |-> Returned(0)]

\* the state after KeywordVolumeService() has run _init_database on a new file
InitService ==
    /\ now = 0
    /\ dbFile = "ready"
    /\ rows = {}
    /\ storageUp = TRUE
    /\ pc = [p \in Procs |-> "idle"]
    /\ call = [p \in Procs |-> NoCall]
    /\ log = <<>>

Init == InitService /\ probe = NoProbe

Return(p, entry) ==
    /\ log' = Append(log, entry)
    /\ pc' = [pc EXCEPT ![p] = "idle"]
    /\ call' = [call EXCEPT ![p] = NoCall]

-----------------------------------------------------------------------------
(* get_volume, up to and including the cache lookup *)

\* get_volume without its country check
ValidateMethodOnly(country, method) ==
    IF method \in CachedMethods \cup {"fallback"} THEN "ok" ELSE "unsupported_method"

\* the country check and the dispatch on method: "ok", or the ValueError raised
Validate(country, method) ==
    IF country \notin SUPPORTED_COUNTRIES THEN "unsupported_country"
    ELSE IF method \in CachedMethods \cup {"fallback"} THEN "ok"
    ELSE "unsupported_method"

GetVolume(p, kw, country, method) ==
    /\ pc[p] = "idle"
    /\ Started < MaxOps
    /\ LET c == NewCall(kw, country, method)
           v == Validate(country, method)
       IN  IF v # "ok"
           THEN /\ Return(p, Entry(c, v, 0, FALSE, FALSE, FALSE, 0))
                /\ UNCHANGED <<dbFile, rows>>
           ELSE IF method = "fallback"
           THEN /\ \E j \in Jitters :
                      Return(p, Entry([c EXCEPT !.heur = 1], "ok",
                                      FallbackVolumeEstimate(kw, country, j),
                                      FALSE, FALSE, FALSE, now))
                /\ UNCHANGED <<dbFile, rows>>
           ELSE IF ~DbUsable
           THEN /\ Return(p, Entry(c, "storage_error", 0, FALSE, TRUE, FALSE, 0))
                /\ dbFile' = FileAfterFailure
                /\ UNCHANGED rows
           ELSE LET cached == GetCachedVolume(rows, kw, country, method, now)
                IN  IF cached.found
                    THEN /\ Return(p, Entry(c, "ok", cached.volume, TRUE, TRUE, FALSE,
                                    Newest(FreshRows(rows, kw, country, method, now)).created_at))
                         /\ UNCHANGED <<dbFile, rows>>
                    ELSE /\ pc' = [pc EXCEPT ![p] = "fetch"]
                         /\ call' = [call EXCEPT ![p] = c]
                         /\ UNCHANGED <<dbFile, rows, log>>
    /\ UNCHANGED <<now, storageUp, probe>>

(* after a miss: the adapters, the combination, _cache_volume and the return *)
FetchAndCache(p) ==
    /\ pc[p] = "fetch"
    /\ \E t \in TrendsResults(call[p].kw, call[p].country),
          a \in AmazonResults(call[p].kw, call[p].country), jc \in Jitters :
         LET c == call[p]
             r == ComputeVolume(c.method, c.kw, c.country, t, a, jc)
             d == [c EXCEPT !.value = r.value, !.sources = r.sources,
                            !.heur = r.heur]
         IN  IF r.raised
             THEN /\ Return(p, Entry(d, "adapter_error", 0, FALSE, TRUE, FALSE, 0))
                  /\ UNCHANGED <<dbFile, rows>>
             ELSE IF ~DbUsable
             THEN /\ Return(p, Entry(d, "storage_error", 0, FALSE, TRUE, FALSE, 0))
                  /\ dbFile' = FileAfterFailure
                  /\ UNCHANGED rows
             ELSE /\ rows' = CacheVolume(rows, d.kw, d.country, d.value, d.method, now)
                  /\ Return(p, Entry(d, "ok", d.value, FALSE, TRUE, TRUE, now))
                  /\ UNCHANGED dbFile
    /\ UNCHANGED <<now, storageUp, probe>>

-----------------------------------------------------------------------------
(* clear_cache *)

\* clear_cache removing another path than the one the service reads: the rows stay
ClearRemoveKeepsRows(p) ==
    /\ pc[p] = "idle"
    /\ Started < MaxOps
    /\ pc' = [pc EXCEPT ![p] = "reinit"]
    /\ call' = [call EXCEPT ![p] = [NoCall EXCEPT !.begun = Len(log), !.at = now]]
    /\ UNCHANGED <<now, dbFile, rows, storageUp, log, probe>>

\* os.path.exists and os.remove
ClearRemove(p) ==
    /\ pc[p] = "idle"
    /\ Started < MaxOps
    /\ LET c == [NoCall EXCEPT !.begun = Len(log), !.at = now]
       IN  IF ~storageUp
           THEN /\ Return(p, ClearEntry(c, "storage_error", 0))
                /\ UNCHANGED <<dbFile, rows>>
           ELSE IF dbFile = "absent"
           THEN /\ Return(p, ClearEntry(c, "ok", 0))
                /\ UNCHANGED <<dbFile, rows>>
           ELSE /\ dbFile' = "absent"
                /\ rows' = {}
                /\ pc' = [pc EXCEPT ![p] = "reinit"]
                /\ call' = [call EXCEPT ![p] = c]
                /\ UNCHANGED log
    /\ UNCHANGED <<now, storageUp, probe>>

\* keyword_service._init_database() and return True
ClearInit(p) ==
    /\ pc[p] = "reinit"
    /\ IF ~storageUp
       THEN /\ Return(p, ClearEntry(call[p], "storage_error", 0))
            /\ UNCHANGED dbFile
       ELSE /\ dbFile' = "ready"
            /\ Return(p, ClearEntry(call[p], "ok", 1))
    /\ UNCHANGED <<now, rows, storageUp, probe>>

-----------------------------------------------------------------------------
(* Environment *)

\* the clock moves in steps of hours, a call lasts seconds (the requests time out
\* after API_CONFIG["timeout"] seconds): time passes between calls
Tick ==
    /\ Active = {}
    /\ \E d \in TickSteps : now + d <= MaxTime /\ now' = now + d
    /\ UNCHANGED <<dbFile, rows, storageUp, pc, call, log, probe>>

\* the storage starts or stops failing (disk, permissions, a lock held elsewhere)
StorageFault ==
    /\ storageUp' = ~storageUp
    /\ UNCHANGED <<now, dbFile, rows, pc, call, log, probe>>

-----------------------------------------------------------------------------
(* Specifications *)

Step(p, kws, countries, methods) ==
    \/ \E kw \in kws, country \in countries, method \in methods :
          GetVolume(p, kw, country, method)
    \/ FetchAndCache(p)
    \/ ClearRemove(p)
    \/ ClearInit(p)

\* one caller at a time, a storage that works
Next == Tick \/ Step(MainProc, {KwSeo}, CallCountries, CallMethods)

Spec == Init /\ [][Next]_vars

\* concurrent callers (the endpoints run in a thread pool)
NextConc == Tick \/ \E p \in Procs : Step(p, {KwSeo}, {"US"}, CachedMethods)

SpecConc == Init /\ [][NextConc]_vars

\* one caller at a time, a storage that may fail
NextFault == Tick \/ StorageFault \/ Step(MainProc, {KwSeo}, {"US"}, {"combined", "fallback"})

SpecFault == Init /\ [][NextFault]_vars

\* one caller at a time, keywords of every shape
NextKeywords == Tick \/ Step(MainProc, CallKeywords, {"US"}, {"combined", "fallback"})

SpecKeywords == Init /\ [][NextKeywords]_vars

-----------------------------------------------------------------------------
(* The adapters on their own: one call of an adapter on each keyword,       *)
(* country, response and jitter                                             *)

\* the responses an adapter is called on: those above, and timelines whose mean
\* is not a whole number of thousandths, with blank points among the numbers,
\* with zero and negative samples; suggestion lists with the keyword at each
\* index, shorter and longer than the ten asked for
AdapterTrendsResponses ==
    TrendsResponses \cup
    { [kind |-> "timeline", timeline |-> <<Num(1), Num(2)>>],
      [kind |-> "timeline", timeline |-> <<Num(1), Num(2), Num(2)>>],
      [kind |-> "timeline", timeline |-> <<Num(1), Num(1), Num(2)>>],
      [kind |-> "timeline", timeline |-> <<BlankPoint, Num(5)>>],
      [kind |-> "timeline", timeline |-> <<Num(0)>>],
      [kind |-> "timeline", timeline |-> <<Num(-3), Num(1)>>] }

AdapterAmazonResponses ==
    AmazonResponses \cup {MatchAt(i, 10) : i \in 0..9}
        \cup {MatchAt(0, 1), MatchAt(1, 3), MatchAt(10, 11), MatchAt(11, 12)}

ProbeInputs ==
    {[NoProbe EXCEPT !.fn = "google_trends", !.kw = kw, !.country = c, !.resp = r, !.jitter = j] :
        kw \in CallKeywords, c \in SUPPORTED_COUNTRIES, r \in AdapterTrendsResponses, j \in Jitters}
    \cup
    {[NoProbe EXCEPT !.fn = "amazon_autocomplete", !.kw = kw, !.country = c, !.resp = r, !.jitter = j] :
        kw \in CallKeywords, c \in SUPPORTED_COUNTRIES, r \in AdapterAmazonResponses, j \in Jitters}

InitAdapters == InitService /\ probe \in ProbeInputs

ProbeGoogleTrends ==
    /\ probe.fn = "google_trends" /\ ~probe.done
    /\ probe' = [probe EXCEPT !.done = TRUE,
                   !.result = GetGoogleTrendsVolume(probe.kw, probe.country, probe.resp, probe.jitter)]
    /\ UNCHANGED <<now, dbFile, rows, storageUp, pc, call, log>>

ProbeAmazonAutocomplete ==
    /\ probe.fn = "amazon_autocomplete" /\ ~probe.done
    /\ probe' = [probe EXCEPT !.done = TRUE,
                   !.result = GetAmazonAutocompleteVolume(probe.kw, probe.country, probe.resp, probe.jitter)]
    /\ UNCHANGED <<now, dbFile, rows, storageUp, pc, call, log>>

NextAdapters == ProbeGoogleTrends \/ ProbeAmazonAutocomplete

SpecAdapters == InitAdapters /\ [][NextAdapters]_vars

-----------------------------------------------------------------------------
(* get_volume as one caller runs it from its first line to its return, on  *)
(* given answers of the two services: e is [enabled, resp, jitter, up,     *)
(* max_retries] with enabled the two flags of the configuration, resp the  *)
(* response each service gives, jitter what random.uniform gives to each   *)
(* heuristic evaluation (t: in the trends adapter, a: in the autocomplete  *)
(* adapter, c: in get_volume_combined or get_volume itself), up whether    *)
(* the storage answers.                                                    *)

\* an adapter retrying a failed request up to max_retries times
RequestsIssuedRetrying(resp, max_retries) ==
    IF resp.kind \in {"neterr", "timeout"} THEN 1 + max_retries ELSE 1

\* the calls of requests.get one adapter call makes: the one in its try block,
\* outside any loop; self.max_retries is read nowhere
RequestsIssued(resp, max_retries) == 1

NoRequests == [t |-> 0, a |-> 0]

\* [status, value, hit, looked, sources, heur, requests, wrote, rows]
Outcome(status, value, hit, looked, srcs, h, reqs, wrote, rws) ==
    [status |-> status, value |-> value, hit |-> hit, looked |-> looked,
     sources |-> srcs, heur |-> h, requests |-> reqs, wrote |-> wrote, rows |-> rws]

GetVolumeOnce(rws, t, kw, country, method, e) ==
    LET v == Validate(country, method)
        cached == GetCachedVolume(rws, kw, country, method, t)
        tr == GetGoogleTrendsVolume(kw, country, e.resp.t, e.jitter.t)
        ar == GetAmazonAutocompleteVolume(kw, country, e.resp.a, e.jitter.a)
        r == CASE method = "google_trends" -> ComputeGoogleTrends(tr)
               [] method = "amazon_autocomplete" -> ComputeAmazonAutocomplete(ar)
               [] OTHER -> CombineVolumes(kw, country, e.enabled.t, e.enabled.a,
                                          tr, ar, e.jitter.c)
        reqs == [t |-> IF "google_trends" \in r.sources
                       THEN RequestsIssued(e.resp.t, e.max_retries) ELSE 0,
                 a |-> IF "amazon_autocomplete" \in r.sources
                       THEN RequestsIssued(e.resp.a, e.max_retries) ELSE 0]
    IN  IF v # "ok"
        THEN Outcome(v, 0, FALSE, FALSE, {}, 0, NoRequests, FALSE, rws)
        ELSE IF method = "fallback"
        THEN Outcome("ok", FallbackVolumeEstimate(kw, country, e.jitter.c),
                     FALSE, FALSE, {}, 1, NoRequests, FALSE, rws)
        ELSE IF ~e.up
        THEN Outcome("storage_error", 0, FALSE, TRUE, {}, 0, NoRequests, FALSE, rws)
        ELSE IF cached.found
        THEN Outcome("ok", cached.volume, TRUE, TRUE, {}, 0, NoRequests, FALSE, rws)
        ELSE IF r.raised
        THEN Outcome("adapter_error", 0, FALSE, TRUE, r.sources, r.heur, reqs, FALSE, rws)
        ELSE Outcome("ok", r.value, FALSE, TRUE, r.sources, r.heur, reqs, TRUE,
                     CacheVolume(rws, kw, country, r.value, method, t))

\* the answers of the services get_volume is run on: failures, timelines with
\* fractional means, with zero and with negative samples, suggestion lists
\* shorter and longer than the ten asked for
GetVolumeTrendsResponses ==
    { [kind |-> "neterr", timeline |-> <<>>],
      [kind |-> "timeline", timeline |-> <<>>],
      [kind |-> "timeline", timeline |-> <<Num(1), Num(2), Num(3)>>],
      [kind |-> "timeline", timeline |-> <<Num(1), Num(2), Num(2)>>],
      [kind |-> "timeline", timeline |-> <<Num(0)>>],
      [kind |-> "timeline", timeline |-> <<Num(-3), Num(1)>>] }

GetVolumeAmazonResponses ==
    { [kind |-> "neterr", suggestions |-> <<>>],
      [kind |-> "ok", suggestions |-> <<>>],
      [kind |-> "ok", suggestions |-> << <<"s","e","o","s">> >>],
      MatchAt(0, 10), MatchAt(8, 10), MatchAt(9, 10), MatchAt(10, 11), MatchAt(11, 12) }

\* API_CONFIG["max_retries"]: int(os.getenv("API_MAX_RETRIES", "3"))
MaxRetriesValues == {0, 3}

Environments ==
    [enabled : [t : BOOLEAN, a : BOOLEAN],
     resp : [t : GetVolumeTrendsResponses, a : GetVolumeAmazonResponses],
     jitter : [t : Jitters, a : Jitters, c : Jitters],
     up : {TRUE},
     max_retries : MaxRetriesValues]

NoOutcome == Outcome("none", 0, FALSE, FALSE, {}, 0, NoRequests, FALSE, {})

GetVolumeInputs ==
    [fn : {"get_volume"}, kw : {KwSeo}, country : {"US"},
     method : CachedMethods \cup {"fallback"}, env : Environments,
     done : {FALSE}, result : {NoOutcome}]

\* the row an earlier call on the key left in the cache
EarlierRow(kw, country, method) == Row(kw, country, method, 2000, 0)

\* the service with an empty cache, or with the row of an earlier call on the key
InitGetVolume ==
    /\ now = 0
    /\ dbFile = "ready"
    /\ storageUp = TRUE
    /\ pc = [p \in Procs |-> "idle"]
    /\ call = [p \in Procs |-> NoCall]
    /\ log = <<>>
    /\ probe \in GetVolumeInputs
    /\ rows \in {{}} \cup (IF probe.method \in CachedMethods
                           THEN {{EarlierRow(probe.kw, probe.country, probe.method)}}
                           ELSE {})

ProbeGetVolume ==
    /\ probe.fn = "get_volume" /\ ~probe.done
    /\ LET out == GetVolumeOnce(rows, now, probe.kw, probe.country, probe.method, probe.env)
       IN  /\ probe' = [probe EXCEPT !.done = TRUE, !.result = out]
           /\ rows' = out.rows
    /\ UNCHANGED <<now, dbFile, storageUp, pc, call, log>>

NextGetVolume == ProbeGetVolume

SpecGetVolume == InitGetVolume /\ [][NextGetVolume]_vars

-----------------------------------------------------------------------------
(* get_batch_keyword_volume, run by one caller on a list of keywords; envs  *)
(* gives, keyword by keyword, the answers of the services, the jitters and  *)
(* whether the storage answers during that keyword's call.                  *)

\* one dictionary of the result list; error is "none" when the key is absent
BatchEntry(kw, country, volume, error) ==
    [keyword |-> Strip(kw), country |-> country, volume |-> volume, error |-> error]

\* the dictionary appended for a keyword whose call came back as out: the volume,
\* or in the except clause volume 0 and the error
EntryOf(kw, country, out) ==
    IF out.status = "ok" THEN BatchEntry(kw, country, out.value, "none")
    ELSE BatchEntry(kw, country, 0, out.status)

\* results.append(entry), then the rest of the loop
Appended(entry, rest) == [results |-> <<entry>> \o rest.results, rows |-> rest.rows]

\* the loop without its try/except: the first exception ends the batch
RECURSIVE GetBatchKeywordVolumeAborting(_, _, _, _, _, _)
AbortingAfterCall(keywords, country, method, t, envs, out) ==
    IF out.status # "ok" THEN [results |-> <<>>, rows |-> out.rows]
    ELSE Appended(EntryOf(Head(keywords), country, out),
                  GetBatchKeywordVolumeAborting(Tail(keywords), country, method,
                                                out.rows, t, Tail(envs)))

GetBatchKeywordVolumeAborting(keywords, country, method, rws, t, envs) ==
    IF keywords = <<>> THEN [results |-> <<>>, rows |-> rws]
    ELSE AbortingAfterCall(keywords, country, method, t, envs,
             GetVolumeOnce(rws, t, Strip(Head(keywords)), country, method, Head(envs)))

\* get_batch_keyword_volume: [results, rows], rows being the cache afterwards
RECURSIVE GetBatchKeywordVolume(_, _, _, _, _, _)
\* one iteration, the call of get_keyword_volume having come back as out
BatchAfterCall(keywords, country, method, t, envs, out) ==
    Appended(EntryOf(Head(keywords), country, out),
             GetBatchKeywordVolume(Tail(keywords), country, method, out.rows, t, Tail(envs)))

GetBatchKeywordVolume(keywords, country, method, rws, t, envs) ==
    IF keywords = <<>> THEN [results |-> <<>>, rows |-> rws]
    ELSE BatchAfterCall(keywords, country, method, t, envs,
             GetVolumeOnce(rws, t, Strip(Head(keywords)), country, method, Head(envs)))

MaxBatch == 3

KwPadded == <<" ", "a", " ">>
BatchKeywords == {KwSeo, KwEmpty, KwPadded}

\* what can happen during one keyword's call: the trends service answers and the
\* autocomplete request fails; the other way round; the storage does not answer
BatchEnvs ==
    { [enabled |-> [t |-> TRUE, a |-> TRUE],
       resp |-> [t |-> [kind |-> "timeline", timeline |-> <<Num(1), Num(2), Num(3)>>],
                 a |-> [kind |-> "neterr", suggestions |-> <<>>]],
       jitter |-> [t |-> j, a |-> j, c |-> j], up |-> TRUE, max_retries |-> 3] : j \in {70} }
    \cup
    { [enabled |-> [t |-> TRUE, a |-> TRUE],
       resp |-> [t |-> [kind |-> "neterr", timeline |-> <<>>], a |-> MatchAt(0, 10)],
       jitter |-> [t |-> j, a |-> j, c |-> j], up |-> up, max_retries |-> 3] :
         j \in {139}, up \in BOOLEAN }

BatchInputs ==
    UNION { [fn : {"batch"}, keywords : [1..n -> BatchKeywords], country : CallCountries,
             method : {"combined", "fallback"}, envs : [1..n -> BatchEnvs],
             before : {{}}, done : {FALSE}, result : {[results |-> <<>>, rows |-> {}]}] :
            n \in 0..MaxBatch }

InitBatch == InitService /\ probe \in BatchInputs

ProbeBatch ==
    /\ probe.fn = "batch" /\ ~probe.done
    /\ LET out == GetBatchKeywordVolume(probe.keywords, probe.country, probe.method,
                                        rows, now, probe.envs)
       IN  /\ probe' = [probe EXCEPT !.done = TRUE, !.before = rows, !.result = out]
           /\ rows' = out.rows
    /\ UNCHANGED <<now, dbFile, storageUp, pc, call, log>>

NextBatch == ProbeBatch

SpecBatch == InitBatch /\ [][NextBatch]_vars

-----------------------------------------------------------------------------
(* The heuristic estimator on its own: one call of _fallback_volume_estimate *)
(* on each keyword, country and jitter                                       *)

MaxKwLen == 12

\* keywords of every length up to MaxKwLen, and keywords holding a question
\* word, a commercial word, a price word, and one of each
HeuristicKeywords ==
    {[i \in 1..n |-> "a"] : n \in 0..MaxKwLen}
    \cup {KwSeo, <<"H","o","w">>, <<"b","e","s","t">>, <<"f","r","e","e">>,
          <<"h","o","w","t","o","p","f","r","e","e">>}

\* random.uniform(0.7, 1.4), in hundredths: the ends and the middle
HeuristicJitters == Jitters \cup {100}

HeuristicInputs ==
    [fn : {"fallback"}, kw : HeuristicKeywords, country : SUPPORTED_COUNTRIES,
     jitter : HeuristicJitters, done : {FALSE}, result : {0}]

InitHeuristic == InitService /\ probe \in HeuristicInputs

ProbeFallbackVolumeEstimate ==
    /\ probe.fn = "fallback" /\ ~probe.done
    /\ probe' = [probe EXCEPT !.done = TRUE,
                   !.result = FallbackVolumeEstimate(probe.kw, probe.country, probe.jitter)]
    /\ UNCHANGED <<now, dbFile, rows, storageUp, pc, call, log>>

NextHeuristic == ProbeFallbackVolumeEstimate

SpecHeuristic == InitHeuristic /\ [][NextHeuristic]_vars

-----------------------------------------------------------------------------
(* get_volume on a store that holds records of other calls, at several      *)
(* ages, under each setting of CACHE_CONFIG                                 *)

\* CACHE_CONFIG: "enabled" (CACHE_ENABLED) and "ttl" (CACHE_TTL, here in hours:
\* the default 86400 s, and 43200 s)
CacheConfigs == [enabled : BOOLEAN, ttl : {12, 24}]

StoreEnvs ==
    [enabled : {[t |-> TRUE, a |-> TRUE]},
     resp : [t : {[kind |-> "neterr", timeline |-> <<>>],
                  [kind |-> "timeline", timeline |-> <<Num(1), Num(2), Num(3)>>]},
             a : {[kind |-> "neterr", suggestions |-> <<>>], MatchAt(0, 10)}],
     jitter : {[t |-> 70, a |-> 139, c |-> 70]},
     up : {TRUE},
     max_retries : {3}]

StoreInputs ==
    [fn : {"get_volume"}, kw : {KwSeo}, country : {"US"},
     method : CachedMethods \cup {"fallback"}, env : StoreEnvs, cache : CacheConfigs,
     done : {FALSE}, result : {NoOutcome}]

\* rows earlier calls may have left: the three cached methods of the keyword,
\* another keyword, another country
StoredRows ==
    {EarlierRow(KwSeo, "US", m) : m \in CachedMethods}
    \cup {Row(<<"a">>, "US", "combined", 1000, 0), Row(KwSeo, "UK", "combined", 400, 0)}

StoreTimes == {0, 12, 24}

InitStore ==
    /\ now \in StoreTimes
    /\ dbFile = "ready"
    /\ storageUp = TRUE
    /\ pc = [p \in Procs |-> "idle"]
    /\ call = [p \in Procs |-> NoCall]
    /\ log = <<>>
    /\ rows \in SUBSET StoredRows
    /\ probe \in StoreInputs

NextStore == ProbeGetVolume

SpecStore == InitStore /\ [][NextStore]_vars

-----------------------------------------------------------------------------
(* length_factor on its own, computed for two keywords                      *)

LengthFactorInputs ==
    [fn : {"length_factor"}, kw : HeuristicKeywords, other : HeuristicKeywords,
     done : {FALSE}, result : {[kw |-> 0, other |-> 0]}]

InitLengthFactor == InitService /\ probe \in LengthFactorInputs

ProbeLengthFactor ==
    /\ probe.fn = "length_factor" /\ ~probe.done
    /\ probe' = [probe EXCEPT !.done = TRUE,
                   !.result = [kw |-> LengthFactor(probe.kw),
                               other |-> LengthFactor(probe.other)]]
    /\ UNCHANGED <<now, dbFile, rows, storageUp, pc, call, log>>

NextLengthFactor == ProbeLengthFactor

SpecLengthFactor == InitLengthFactor /\ [][NextLengthFactor]_vars

-----------------------------------------------------------------------------
(* Termination: the estimate calls of the callers, and                       *)
(* get_batch_keyword_volume run by one caller, one call of                   *)
(* get_keyword_volume after the other, under fair scheduling. The calls of   *)
(* the batch are the only ones made while it runs, so log holds them in      *)
(* order: the for loop stands at keyword Len(log) + 1.                       *)

LiveKeywords == {KwSeo, KwPadded, KwEmpty}

\* a batch about to start
LiveBatchInputs ==
    UNION { [fn : {"batch_loop"}, keywords : [1..n -> LiveKeywords],
             country : CallCountries, method : {"combined"},
             done : {FALSE}, results : {<<>>}] : n \in 0..MaxOps }

InitLive == InitService /\ probe \in LiveBatchInputs \cup {NoProbe}

BatchRunning == probe.fn = "batch_loop" /\ ~probe.done

\* the loop calling again for a keyword whose call raised, until it succeeds
BatchInvokeRetrying ==
    /\ BatchRunning
    /\ LET k == Cardinality({m \in 1..Len(log) : log[m].status = "ok"}) + 1
       IN  /\ k <= Len(probe.keywords)
           /\ GetVolume(MainProc, Strip(probe.keywords[k]), probe.country, probe.method)

\* for keyword in keywords: get_keyword_volume(keyword.strip(), country, method)
BatchInvoke ==
    /\ BatchRunning
    /\ Len(log) < Len(probe.keywords)
    /\ GetVolume(MainProc, Strip(probe.keywords[Len(log) + 1]), probe.country, probe.method)

\* the call the batch is waiting for goes on after its cache miss
BatchFetch == BatchRunning /\ FetchAndCache(MainProc)

\* the list is exhausted: return results, one dictionary appended per call, from
\* try when the call returned and from except when it raised
BatchReturn ==
    /\ BatchRunning
    /\ pc[MainProc] = "idle"
    /\ Len(log) >= Len(probe.keywords)
    /\ probe' = [probe EXCEPT
                   !.done = TRUE,
                   !.results = [k \in 1..Len(log) |->
                                   EntryOf(probe.keywords[k], probe.country, log[k])]]
    /\ UNCHANGED <<now, dbFile, rows, storageUp, pc, call, log>>

\* a caller of get_keyword_volume, when no batch runs
LiveEstimate(p) ==
    /\ probe = NoProbe
    /\ \/ \E country \in CallCountries, method \in {"combined", "bogus"} :
             GetVolume(p, KwSeo, country, method)
       \/ FetchAndCache(p)

NextLive ==
    BatchInvoke \/ BatchFetch \/ BatchReturn \/ \E p \in Procs : LiveEstimate(p)

\* the thread of a call keeps running: requests.get returns or raises within
\* timeout=self.timeout, time.sleep(rate_limit_delay) ends, the for loop moves on
SpecLive ==
    /\ InitLive /\ [][NextLive]_vars
    /\ WF_vars(BatchInvoke) /\ WF_vars(BatchReturn)
    /\ \A p \in Procs : WF_vars(FetchAndCache(p))

-----------------------------------------------------------------------------
(* Properties *)

Calls == 1..Len(log)

IsEstimate(e) == e.op = "estimate"

SameRequest(e, f) ==
    e.kw = f.kw /\ e.country = f.country /\ e.method = f.method

\* no clear_cache returned after call i returned and before call j returned
NoClearBetween(i, j) == \A k \in Calls : i < k /\ k < j => log[k].op # "clear"

\* call j was made after call i had returned
After(i, j) == i < j /\ log[j].begun >= i

\* call i answered without any source adapter and without the heuristic
FromCacheOnly(e) == e.hit /\ e.sources = {} /\ e.heur = 0

C2_EveryMethodCached ==
    /\ \A i \in Calls :
          ( /\ IsEstimate(log[i]) /\ log[i].status = "ok"
            /\ log[i].method \in CachedMethods \cup {"fallback"} )
          => log[i].looked /\ (log[i].hit \/ log[i].wrote)
    /\ \A i, j \in Calls :
          ( /\ After(i, j)
            /\ IsEstimate(log[i]) /\ IsEstimate(log[j])
            /\ SameRequest(log[i], log[j])
            /\ log[i].method \in CachedMethods \cup {"fallback"}
            /\ log[i].status = "ok" /\ log[j].status = "ok"
            /\ log[j].at - log[i].computedAt < TTLHours
            /\ NoClearBetween(i, j) )
          => log[j].value = log[i].value /\ log[j].hit

\* C3, as stated: for each key the source adapters are invoked at most once
\* within any 24-hour window in which no clear() occurs, concurrent callers
\* included.
C3_AtMostOneFetch ==
    \A i, j \in Calls :
        ( /\ i < j
          /\ IsEstimate(log[i]) /\ IsEstimate(log[j])
          /\ SameRequest(log[i], log[j])
          /\ log[i].sources # {} /\ log[j].sources # {}
          /\ log[j].at - log[i].at < TTLHours
          /\ \A k \in Calls : log[k].op # "clear" )
        => FALSE

\* C3, amended: a call made after an earlier call on the same key has returned
\* with its value committed to the cache, less than 24 hours later and with no
\* clear() in between, invokes no source adapter; callers that overlap may each
\* invoke them.
C3_NoFetchAfterCommit ==
    \A i, j \in Calls :
        ( /\ After(i, j)
          /\ IsEstimate(log[i]) /\ IsEstimate(log[j])
          /\ SameRequest(log[i], log[j])
          /\ log[i].wrote
          /\ log[j].at - log[i].computedAt < TTLHours
          /\ NoClearBetween(i, j) )
        => log[j].sources = {}

\* a caller found the value another caller had fetched and committed while a
\* third call on the same key was still in flight
C3_Witness ==
    \E i, j \in Calls :
        /\ After(i, j)
        /\ SameRequest(log[i], log[j])
        /\ log[i].wrote /\ log[i].sources # {}
        /\ log[j].hit /\ log[j].sources = {}
        /\ \E p \in Procs : pc[p] = "fetch" /\ call[p].kw = log[i].kw
                              /\ call[p].country = log[i].country
                              /\ call[p].method = log[i].method
                              /\ call[p].begun < i

\* a call returned in this step; Returning is its log entry
Returns == Len(log') = Len(log) + 1
Returning == log'[Len(log')]

ValidRequest(e) ==
    e.country \in SUPPORTED_COUNTRIES /\ e.method \in CachedMethods \cup {"fallback"}

\* C4, as stated: storage failures never reach the caller of estimate: a failed
\* cache read is a miss, a failed cache write still returns the computed value;
\* every estimate on a valid request returns an integer.
C4_StorageFailuresAbsorbed ==
    \A i \in Calls :
        IsEstimate(log[i]) /\ ValidRequest(log[i]) => log[i].status = "ok"

\* a stored row of the key that is less than 24 hours old
FreshRecord(kw, country, method) ==
    {r \in rows : /\ r.keyword = kw /\ r.country = country /\ r.method = method
                  /\ now - r.created_at < TTLHours}

\* C5: the cache lookup returns a record if and only if a record of that exact
\* key exists whose age is under 24 hours (what it returns is that record's
\* volume); a record aged 24 hours or more is reported absent, and the lookup
\* leaves every record, expired ones included, in the store.
C5_GetFreshOnly ==
    [][ /\ \A p \in Procs :
             (pc[p] = "idle" /\ pc'[p] = "fetch")
             => /\ FreshRecord(call'[p].kw, call'[p].country, call'[p].method) = {}
                /\ rows' = rows
        /\ (Returns /\ IsEstimate(Returning) /\ Returning.hit)
             => /\ \E r \in FreshRecord(Returning.kw, Returning.country, Returning.method) :
                      r.volume = Returning.value
                /\ rows' = rows
      ]_vars

\* a lookup missed on a record exactly 24 hours old, which is still in the store
C5_Witness ==
    \E p \in Procs :
        /\ pc[p] = "fetch"
        /\ \E r \in rows :
              /\ SameKey(r, call[p].kw, call[p].country, call[p].method)
              /\ now - r.created_at = TTLHours

UniqueKeys(rws) ==
    \A r, q \in rws : SameKey(r, q.keyword, q.country, q.method) => r = q

\* C6: the store holds at most one record per (keyword, country, method) in
\* every state; a cache write leaves exactly one record of its key, holding the
\* written volume and computed_at = now (replacing the key's earlier record or
\* adding one), and leaves the records of all other keys as they were.
C6_UpsertPerKey ==
    /\ UniqueKeys(rows)
    /\ [][ /\ UniqueKeys(rows')
           /\ (Returns /\ Returning.wrote)
                => LET e == Returning
                       others == {r \in rows : ~SameKey(r, e.kw, e.country, e.method)}
                   IN  /\ rows' = others \cup {Row(e.kw, e.country, e.method, e.value, now)}
                       /\ Cardinality(rows') =
                             Cardinality(rows) + (IF others = rows THEN 1 ELSE 0)
         ]_vars

\* a second write on a key has replaced the record of the first with a later one
C6_Witness ==
    \E i, j \in Calls :
        /\ i < j /\ SameRequest(log[i], log[j])
        /\ log[i].wrote /\ log[j].wrote
        /\ log[j].computedAt > log[i].computedAt
        /\ \E r \in rows :
              /\ SameKey(r, log[j].kw, log[j].country, log[j].method)
              /\ r.created_at = log[j].computedAt
        /\ Cardinality({r \in rows : SameKey(r, log[j].kw, log[j].country, log[j].method)}) = 1

Recomputed(e) == ~e.hit /\ (e.sources # {} \/ e.heur > 0)

\* C7: when clear() has returned the store is empty and usable; the next
\* estimate on a key that was cached before the clear recomputes its value
\* rather than returning the cached one, and caches what it computed.
C7_ClearThenRecompute ==
    /\ ( /\ log # <<>> /\ log[Len(log)].op = "clear" /\ log[Len(log)].status = "ok"
         /\ Active = {} )
       => rows = {} /\ dbFile = "ready"
    /\ \A i, k, j \in Calls :
          ( /\ i < k /\ k < j
            /\ IsEstimate(log[i]) /\ log[i].status = "ok" /\ (log[i].hit \/ log[i].wrote)
            /\ log[k].op = "clear" /\ log[k].status = "ok"
            /\ IsEstimate(log[j]) /\ log[j].status = "ok"
            /\ SameRequest(log[i], log[j])
            /\ \A m \in Calls : (k < m /\ m < j) => ~SameRequest(log[m], log[j]) )
          => Recomputed(log[j]) /\ log[j].wrote

\* a key cached before a clear was computed anew by the first call after it
C7_Witness ==
    \E i, k, j \in Calls :
        /\ i < k /\ k < j
        /\ log[i].wrote /\ log[k].op = "clear" /\ log[k].value = 1
        /\ IsEstimate(log[j]) /\ SameRequest(log[i], log[j])
        /\ log[j].at = log[i].at
        /\ log[j].wrote /\ log[j].value # log[i].value
        /\ rows = {Row(log[j].kw, log[j].country, log[j].method, log[j].value, log[j].at)}

\* a response from which the trends adapter reads a volume: a timeline whose
\* values all convert, at least one of them not blank
UsableTimeline(resp) ==
    /\ resp.kind = "timeline"
    /\ \A n \in 1..Len(resp.timeline) : resp.timeline[n].tag # "junk"
    /\ \E n \in 1..Len(resp.timeline) : resp.timeline[n].tag = "num"

\* a response in which the autocomplete adapter finds the keyword
UsableSuggestions(kw, resp) ==
    /\ resp.kind = "ok"
    /\ \E n \in 1..Len(resp.suggestions) : Lower(resp.suggestions[n]) = Lower(kw)

UsableResponse(pr) ==
    IF pr.fn = "google_trends" THEN UsableTimeline(pr.resp)
    ELSE UsableSuggestions(pr.kw, pr.resp)

\* C8: an adapter call never raises: whatever the remote call did (network
\* error, status other than 200, malformed body, empty or unusable signal) it
\* returns an integer, and with no usable signal that integer is the heuristic
\* estimate for the same keyword and country.
C8_AdapterNeverRaises ==
    probe.done =>
        /\ ~probe.result.raised
        /\ probe.result.value \in Int
        /\ ~UsableResponse(probe)
             => /\ probe.result.fallback
                /\ probe.result.value =
                      FallbackVolumeEstimate(probe.kw, probe.country, probe.jitter)

\* the trends adapter has answered a network error, and a timeline holding a
\* value int() rejects, with the heuristic estimate
C8_Witness ==
    /\ probe.done /\ probe.fn = "google_trends"
    /\ probe.resp.kind = "timeline" /\ probe.resp.timeline # <<>>
    /\ ~UsableResponse(probe)
    /\ probe.result.fallback
    /\ probe.result.value >= 10

\* C9: estimate with an unsupported country, and estimate with an unsupported
\* method, fail with an invalid-input error, before any cache lookup, adapter
\* call or heuristic call, and leave the cache as it was.
C9_InvalidInputRejected ==
    [][ (Returns /\ IsEstimate(Returning) /\ ~ValidRequest(Returning))
          => LET e == Returning
             IN  /\ e.status = (IF e.country \notin SUPPORTED_COUNTRIES
                                THEN "unsupported_country" ELSE "unsupported_method")
                 /\ ~e.looked /\ e.sources = {} /\ e.heur = 0 /\ ~e.wrote
                 /\ rows' = rows /\ dbFile' = dbFile
      ]_vars

\* with a record in the cache, one call was rejected for its country and one for
\* its method, and the record is still what it was
C9_Witness ==
    /\ Len(log) = 3
    /\ log[1].wrote
    /\ log[2].country = "ZZ" /\ log[2].method \in CachedMethods
    /\ log[2].status = "unsupported_country"
    /\ log[3].country = "US" /\ log[3].method = "bogus"
    /\ log[3].status = "unsupported_method"
    /\ rows = {Row(log[1].kw, log[1].country, log[1].method, log[1].value, log[1].at)}

\* C10, as stated: estimate on a keyword that is empty, or empty once trimmed,
\* is rejected as invalid input: the caller gets an error, no adapter and no
\* heuristic is invoked, and no record is written for it.
C10_EmptyKeywordRejected ==
    \A i \in Calls :
        (IsEstimate(log[i]) /\ Strip(log[i].kw) = <<>>)
        => /\ log[i].status # "ok"
           /\ log[i].sources = {} /\ log[i].heur = 0 /\ ~log[i].wrote

\* the remote call itself errored (connection error, timeout)
RemoteFailed(resp) == resp.kind \in {"neterr", "timeout"}

\* the heuristic estimate of the probed keyword and country under jitter j
ProbeHeuristic(j) == FallbackVolumeEstimate(probe.kw, probe.country, j)

\* a finished get_volume(kw, country, "combined") that missed the cache
CombinedMiss ==
    /\ probe.fn = "get_volume" /\ probe.done
    /\ probe.method = "combined" /\ ~probe.result.hit

BothFailed ==
    /\ CombinedMiss
    /\ probe.env.enabled.t /\ probe.env.enabled.a
    /\ RemoteFailed(probe.env.resp.t) /\ RemoteFailed(probe.env.resp.a)

CachedUnderKey ==
    rows = {Row(probe.kw, probe.country, probe.method, probe.result.value, now)}

Contributed ==
    (IF probe.env.enabled.t
     THEN <<GetGoogleTrendsVolume(probe.kw, probe.country, probe.env.resp.t,
                                  probe.env.jitter.t).value>>
     ELSE <<>>)
    \o (IF probe.env.enabled.a
        THEN <<GetAmazonAutocompleteVolume(probe.kw, probe.country, probe.env.resp.a,
                                           probe.env.jitter.a).value>>
        ELSE <<>>)

EnabledSources ==
    (IF probe.env.enabled.t THEN {"google_trends"} ELSE {})
      \cup (IF probe.env.enabled.a THEN {"amazon_autocomplete"} ELSE {})

\* C12: on a cache miss with method combined only the adapters enabled by
\* configuration are called; with no contributed value (both disabled) the
\* result is the Heuristic Estimator's value, otherwise it is the arithmetic
\* mean of exactly the contributed values truncated to an integer; a source
\* that failed is never averaged in as zero (it contributes its fallback value,
\* which is at least 10).
C12_MeanOfContributed ==
    CombinedMiss =>
        /\ probe.result.status = "ok"
        /\ probe.result.sources = EnabledSources
        /\ (probe.result.requests.t > 0) = probe.env.enabled.t
        /\ (probe.result.requests.a > 0) = probe.env.enabled.a
        /\ IF Contributed = <<>>
           THEN /\ probe.result.value = ProbeHeuristic(probe.env.jitter.c)
                /\ probe.result.heur = 1
           ELSE /\ probe.result.value * Len(Contributed) <= SumSeq(Contributed)
                /\ SumSeq(Contributed) < (probe.result.value + 1) * Len(Contributed)
                /\ (RemoteFailed(probe.env.resp.t) /\ probe.env.enabled.t)
                      => Contributed[1] = ProbeHeuristic(probe.env.jitter.t)
                /\ (RemoteFailed(probe.env.resp.a) /\ probe.env.enabled.a)
                      => Contributed[Len(Contributed)] = ProbeHeuristic(probe.env.jitter.a)

\* with the trends source disabled, the result is the autocomplete value alone,
\* not half of it
C12_Witness ==
    /\ CombinedMiss
    /\ ~probe.env.enabled.t /\ probe.env.enabled.a
    /\ probe.env.resp.a = MatchAt(0, 10)
    /\ probe.result.value = 10000
    /\ probe.result.sources = {"amazon_autocomplete"}
    /\ CachedUnderKey

\* s without its i-th element
RemoveAt(s, i) == SubSeq(s, 1, i - 1) \o SubSeq(s, i + 1, Len(s))

BatchDone == probe.fn = "batch" /\ probe.done

\* the orchestrator raises for the i-th keyword of the batch: the request is
\* invalid, or the storage does not answer the cache lookup
BatchRaises(i) ==
    \/ Validate(probe.country, probe.method) # "ok"
    \/ probe.method \in CachedMethods /\ ~probe.envs[i].up

\* C13: estimate_many returns exactly one entry per input keyword in input
\* order; when the orchestrator raises for one keyword that keyword's entry is
\* {keyword, country, volume: 0, error: message}, processing continues, and the
\* entries of all other keywords are what they would be had the failing keyword
\* not been in the list.
C13_BatchIsolatesFailures ==
    BatchDone =>
        LET res == probe.result.results
        IN  /\ Len(res) = Len(probe.keywords)
            /\ \A i \in 1..Len(res) :
                  /\ res[i].keyword = Strip(probe.keywords[i])
                  /\ res[i].country = probe.country
                  /\ IF BatchRaises(i)
                     THEN /\ res[i].volume = 0 /\ res[i].error # "none"
                          /\ RemoveAt(res, i) =
                                GetBatchKeywordVolume(RemoveAt(probe.keywords, i),
                                    probe.country, probe.method, probe.before, now,
                                    RemoveAt(probe.envs, i)).results
                     ELSE res[i].error = "none"

\* the second of three keywords failed on the storage; the first and the third
\* have their volumes
C13_Witness ==
    /\ BatchDone
    /\ Len(probe.keywords) = 3
    /\ probe.country = "US" /\ probe.method = "combined"
    /\ ~BatchRaises(1) /\ BatchRaises(2) /\ ~BatchRaises(3)
    /\ probe.keywords[1] = KwSeo /\ probe.keywords[3] = KwPadded
    /\ probe.result.results[1].volume > 0
    /\ probe.result.results[2].volume = 0
    /\ probe.result.results[2].error = "storage_error"
    /\ probe.result.results[3].volume > 0
    /\ probe.result.results[3].keyword = <<"a">>
    /\ Cardinality(rows) = 2

NonEmpty(kw) == kw # <<>>

\* C14, as stated: for an input list containing empty or whitespace-only
\* strings, the output of estimate_many has entries only for the keywords that
\* are non-empty after trimming, each in trimmed form, in their relative input
\* order.
C14_BatchSkipsEmptyKeywords ==
    BatchDone =>
        LET kept == SelectSeq([i \in 1..Len(probe.keywords) |-> Strip(probe.keywords[i])],
                              NonEmpty)
            res == probe.result.results
        IN  /\ Len(res) = Len(kept)
            /\ \A i \in 1..Len(res) : res[i].keyword = kept[i]

\* C15, as stated: every value returned by estimate, and the volume of every
\* record in the store, is a non-negative integer, for every method and every
\* response the remote services can send (timelines with zero or negative
\* samples and suggestion lists of any length included).
C15_NonNegativeVolumes ==
    /\ (probe.fn = "get_volume" /\ probe.done /\ probe.result.status = "ok")
          => probe.result.value \in Nat
    /\ \A r \in rows : r.volume \in Nat

\* C16: for all supported countries and all keywords (the empty keyword and
\* long keywords included) and every jitter in [0.7, 1.4), the output of the
\* Heuristic Estimator is an integer >= 10.
C16_HeuristicAtLeastTen ==
    (probe.fn = "fallback" /\ probe.done) => (probe.result \in Int /\ probe.result >= 10)

\* the estimate of a keyword long enough for the floor of the length factor, in
\* the country of the smallest multiplier, under the smallest jitter
C16_Witness ==
    /\ probe.fn = "fallback" /\ probe.done
    /\ Len(probe.kw) = MaxKwLen /\ 100 - (Len(probe.kw) - 3) * 15 < 0
    /\ probe.country = "SA" /\ probe.jitter = 70
    /\ probe.result = 42

\* round(n / d) for d > 0: the nearest integer, a tie going to the even one
RoundDiv(n, d) ==
    LET q == n \div d
        r == n % d
    IN  IF 2 * r < d THEN q
        ELSE IF 2 * r > d THEN q + 1
        ELSE IF q % 2 = 0 THEN q ELSE q + 1

TrendsDone == probe.fn = "google_trends" /\ probe.done

\* a response that carries a non-empty list of numeric sample points
NumericSamples(resp) ==
    /\ resp.kind = "timeline" /\ resp.timeline # <<>>
    /\ \A n \in 1..Len(resp.timeline) : resp.timeline[n].tag = "num"

SampleValues(resp) == [n \in 1..Len(resp.timeline) |-> resp.timeline[n].v]

\* C17, as stated: when the response carries a non-empty list of numeric sample
\* points the trend adapter returns round(mean(samples) * 1000), for every such
\* list; when the list is empty or absent it returns the fallback value.
C17_TrendRoundedMean ==
    TrendsDone =>
        /\ NumericSamples(probe.resp)
             => /\ ~probe.result.fallback
                /\ probe.result.value =
                      RoundDiv(SumSeq(SampleValues(probe.resp)) * 1000, Len(probe.resp.timeline))
        /\ (probe.resp.kind = "notimeline"
              \/ (probe.resp.kind = "timeline" /\ probe.resp.timeline = <<>>))
             => /\ probe.result.fallback
                /\ probe.result.value =
                      FallbackVolumeEstimate(probe.kw, probe.country, probe.jitter)

AmazonDone == probe.fn = "amazon_autocomplete" /\ probe.done

\* the suggestion at index i (from 0) is the keyword, case aside, and none before it is
FirstExactMatchAt(i) ==
    /\ i + 1 \in 1..Len(probe.resp.suggestions)
    /\ Lower(probe.resp.suggestions[i + 1]) = Lower(probe.kw)
    /\ \A k \in 1..i : Lower(probe.resp.suggestions[k]) # Lower(probe.kw)

\* C18: for a suggestion list of size <= 10, if the first suggestion equal to
\* the keyword case-insensitively is at 0-based position i the autocomplete
\* adapter returns 10000 * (10 - i) / 10 (10000 at index 0, 1000 at index 9);
\* if no suggestion matches or the list is empty it returns the fallback value.
C18_AutocompletePositionVolume ==
    (AmazonDone /\ probe.resp.kind = "ok" /\ Len(probe.resp.suggestions) <= 10) =>
        /\ \A i \in 0..9 :
              FirstExactMatchAt(i)
                => /\ ~probe.result.fallback
                   /\ probe.result.value * 10 = 10000 * (10 - i)
        /\ (FirstExactMatchAt(0) => probe.result.value = 10000)
        /\ (FirstExactMatchAt(9) => probe.result.value = 1000)
        /\ (\A i \in 0..9 : ~FirstExactMatchAt(i))
              => /\ probe.result.fallback
                 /\ probe.result.value =
                       FallbackVolumeEstimate(probe.kw, probe.country, probe.jitter)

\* the keyword was found at index 9 of ten suggestions, in another case
C18_Witness ==
    /\ AmazonDone
    /\ probe.kw = KwSeo /\ probe.resp = MatchAt(9, 10)
    /\ FirstExactMatchAt(9)
    /\ probe.result.value = 1000

\* no clear_cache has run or is running
NoClear ==
    /\ \A k \in Calls : log[k].op # "clear"
    /\ \A p \in Procs : pc[p] # "reinit"

\* the calls that committed a row of the key of call i
WritersOf(i) == {k \in Calls : log[k].wrote /\ SameRequest(log[k], log[i])}

\* calls i and j overlapped: j had started when i returned
Overlapped(i, j) == i < j /\ log[j].begun < i

\* C19: when estimate calls run concurrently, on the same key or on distinct
\* keys, and all miss, the store holds exactly one record per written key; the
\* record of a contended key carries the volume of whichever write committed
\* last, and the records of distinct keys are all present with the values
\* their writers computed.
C19_LastWriterWins ==
    NoClear =>
        /\ \A i \in Calls :
              log[i].wrote =>
                  LET last == CHOOSE k \in WritersOf(i) : \A m \in WritersOf(i) : m <= k
                  IN  {r \in rows : SameKey(r, log[i].kw, log[i].country, log[i].method)}
                        = {Row(log[i].kw, log[i].country, log[i].method,
                               log[last].value, log[last].computedAt)}
        /\ \A r \in rows :
              \E i \in Calls :
                  log[i].wrote /\ SameKey(r, log[i].kw, log[i].country, log[i].method)

\* two overlapping calls on one key both missed and wrote different values, a
\* third wrote another key while the second was in flight; the store holds the
\* second's value for the contended key and the third's for the other
C19_Witness ==
    /\ NoClear /\ Active = {}
    /\ \E i, j, k \in Calls :
          /\ Overlapped(i, j) /\ SameRequest(log[i], log[j])
          /\ log[i].wrote /\ log[j].wrote /\ log[i].value # log[j].value
          /\ log[k].wrote /\ ~SameRequest(log[k], log[j])
          /\ k < j /\ log[j].begun < k
          /\ Row(log[j].kw, log[j].country, log[j].method, log[j].value, log[j].at) \in rows
          /\ Row(log[k].kw, log[k].country, log[k].method, log[k].value, log[k].at) \in rows
          /\ Cardinality(rows) = 2

GetVolumeDone == probe.fn = "get_volume" /\ probe.done

\* C20: each adapter call issues at most one request to its remote service and
\* nothing retries it, so one estimate call issues at most one request per
\* source: at most two for combined, at most one for trend or autocomplete
\* (and none to the other service), none for fallback or on a cache hit,
\* whatever max_retries is configured.
C20_SingleAttempt ==
    GetVolumeDone =>
        LET q == probe.result.requests
        IN  /\ q.t \in {0, 1} /\ q.a \in {0, 1}
            /\ probe.method = "google_trends" => q.a = 0
            /\ probe.method = "amazon_autocomplete" => q.t = 0
            /\ (probe.method = "fallback" \/ probe.result.hit) => (q.t = 0 /\ q.a = 0)
            /\ q.t = (IF "google_trends" \in probe.result.sources THEN 1 ELSE 0)
            /\ q.a = (IF "amazon_autocomplete" \in probe.result.sources THEN 1 ELSE 0)

\* a combined call whose two requests both failed, under max_retries = 3, made
\* one request to each service
C20_Witness ==
    /\ BothFailed
    /\ probe.env.max_retries = 3
    /\ probe.result.requests = [t |-> 1, a |-> 1]

\* the step in which the probed call of get_volume runs
GetVolumeRuns == probe.fn = "get_volume" /\ ~probe.done /\ probe'.done

\* the rows of the probed key
OwnRows(rws) == {r \in rws : SameKey(r, probe.kw, probe.country, probe.method)}

\* C21, as stated: the freshness window applied by the cache lookup equals the
\* configured cache TTL (default 86400 s), and when the cache-enabled flag is
\* false estimate neither reads from nor writes to the cache.
C21_CacheHonoursConfiguration ==
    [][ GetVolumeRuns =>
          LET o == probe'.result
              fresh == {r \in OwnRows(rows) : now - r.created_at < probe.cache.ttl}
          IN  /\ (probe.cache.enabled /\ probe.method \in CachedMethods)
                   => (o.hit <=> fresh # {})
              /\ ~probe.cache.enabled => (~o.looked /\ ~o.wrote /\ rows' = rows)
      ]_vars

\* C23: an estimate with method m reads and writes only the cache record keyed
\* (keyword, country, m): what it returns and does is what it would with every
\* other record removed from the store (a combined estimation does not read the
\* trend or autocomplete records, and the other way round), and the records of
\* every other method, keyword or country are left as they were.
C23_OnlyOwnRecord ==
    [][ GetVolumeRuns =>
          LET o == probe'.result
              alone == GetVolumeOnce(OwnRows(rows), now, probe.kw, probe.country,
                                     probe.method, probe.env)
          IN  /\ o.status = alone.status /\ o.value = alone.value
              /\ o.hit = alone.hit /\ o.wrote = alone.wrote
              /\ o.sources = alone.sources
              /\ OwnRows(rows') = alone.rows
              /\ rows' \ OwnRows(rows') = rows \ OwnRows(rows)
              /\ o.hit => \E r \in OwnRows(rows) : r.volume = o.value
      ]_vars

\* with fresh trend and autocomplete records of the keyword in the store and no
\* combined record, a combined estimation computed its own value and wrote it
\* beside them
C23_Witness ==
    /\ GetVolumeDone /\ probe.method = "combined"
    /\ ~probe.result.hit /\ probe.result.wrote
    /\ probe.result.sources = {"google_trends", "amazon_autocomplete"}
    /\ probe.result.value # EarlierRow(probe.kw, probe.country, "combined").volume
    /\ rows = (StoredRows \ {EarlierRow(probe.kw, probe.country, "combined")})
                \cup {Row(probe.kw, probe.country, "combined", probe.result.value, now)}
    /\ now < TTLHours

\* C27, as stated: a source disabled by configuration is never contacted,
\* whichever method is requested: with the trend source disabled neither
\* estimate(kw, c, combined) nor estimate(kw, c, trend) issues a trend request,
\* and likewise for the autocomplete source.
C27_DisabledSourceNeverContacted ==
    GetVolumeDone =>
        /\ ~probe.env.enabled.t => probe.result.requests.t = 0
        /\ ~probe.env.enabled.a => probe.result.requests.a = 0

LengthFactorDone == probe.fn = "length_factor" /\ probe.done

\* C22: length_factor = max(0.3, 1.0 - (len(keyword) - 3) * 0.15) is
\* monotonically non-increasing in keyword length: for all lengths n <= m,
\* length_factor(n) >= length_factor(m), and length_factor(n) >= 0.3 for every n.
C22_LengthFactorMonotone ==
    LengthFactorDone =>
        /\ Len(probe.kw) <= Len(probe.other) => probe.result.kw >= probe.result.other
        /\ probe.result.kw >= 30 /\ probe.result.other >= 30

\* the factor of the empty keyword, 1.45, against that of a keyword of nine
\* characters or more, which is the floor
C22_Witness ==
    /\ LengthFactorDone
    /\ Len(probe.kw) = 0 /\ Len(probe.other) >= 9
    /\ probe.result.kw = 145 /\ probe.result.other = 30
    /\ 100 - (Len(probe.other) - 3) * 15 < 30

\* C24, as stated: a clear() running concurrently with estimate calls (or with
\* another clear()) never makes any of those calls fail: at every point of the
\* interleaving the store is the pre-clear store or an empty, initialised one,
\* every call returns normally, and once all calls have completed the store is
\* usable.
C24_ClearIsAtomic ==
    /\ dbFile = "ready"
    /\ \A i \in Calls : ValidRequest(log[i]) \/ ~IsEstimate(log[i])
                           => log[i].status = "ok"
    /\ Active = {} => DbUsable

KeysOf(rws) == {<<r.keyword, r.country, r.method>> : r \in rws}

\* clear_cache removed the store in this step
ClearRemoves == \E p \in Procs : pc[p] = "idle" /\ pc'[p] = "reinit"

\* C25: records are deleted by clear() alone: in every step that is not clear()
\* removing the store, each key present before is present after (an expired
\* record stays until a write to its key replaces it), and the store changes
\* only when an estimate returns after writing its computed value or when
\* clear() removes the store.
C25_OnlyClearDeletes ==
    [][ /\ ~ClearRemoves => KeysOf(rows) \subseteq KeysOf(rows')
        /\ rows' # rows =>
              \/ ClearRemoves
              \/ /\ Returns /\ IsEstimate(Returning) /\ Returning.wrote
                 /\ ~Returning.hit /\ Returning.status = "ok"
      ]_vars

\* a record aged 24 hours or more is still stored after a later estimate wrote
\* the record of another key, with no clear() at all
C25_Witness ==
    /\ \A i \in Calls : IsEstimate(log[i])
    /\ \E r \in rows, i \in Calls :
          /\ now - r.created_at >= TTLHours
          /\ log[i].wrote /\ log[i].at >= r.created_at + TTLHours
          /\ ~SameKey(r, log[i].kw, log[i].country, log[i].method)
          /\ Cardinality(rows) = 2

\* the stored record of the request's key that is 24 hours old or older
ExpiredRecord(kw, country, method) ==
    {r \in rows : SameKey(r, kw, country, method) /\ now - r.created_at >= TTLHours}

\* C26: a cache hit leaves the store unchanged, computed_at included, so the
\* value a hit returns was computed less than 24 hours before the call, by a
\* call that wrote it at that time, however often it was read in between; the
\* first estimate made when the record is 24 hours old or older recomputes and
\* replaces it with a record computed now.
C26_HitDoesNotRefresh ==
    /\ [](\A i \in Calls :
            log[i].hit =>
               /\ log[i].at - log[i].computedAt < TTLHours
               /\ \E k \in 1..(i - 1) :
                     /\ log[k].wrote /\ SameRequest(log[k], log[i])
                     /\ log[k].at = log[i].computedAt
                     /\ log[k].value = log[i].value)
    /\ [][ (Returns /\ IsEstimate(Returning) /\ Returning.status = "ok")
             => /\ Returning.hit => rows' = rows
                /\ ExpiredRecord(Returning.kw, Returning.country, Returning.method) # {}
                     => /\ ~Returning.hit /\ Returning.wrote
                        /\ {r \in rows' : SameKey(r, Returning.kw, Returning.country,
                                                  Returning.method)}
                             = {Row(Returning.kw, Returning.country, Returning.method,
                                    Returning.value, now)}
         ]_vars

\* written at hour 0, read at hour 12, recomputed and overwritten at hour 24
C26_Witness ==
    /\ Len(log) = 3
    /\ SameRequest(log[1], log[2]) /\ SameRequest(log[2], log[3])
    /\ log[1].wrote /\ log[1].at = 0
    /\ log[2].hit /\ log[2].at = 12 /\ log[2].computedAt = 0
    /\ log[3].wrote /\ ~log[3].hit /\ log[3].at = TTLHours
    /\ rows = {Row(log[3].kw, log[3].country, log[3].method, log[3].value, TTLHours)}

BatchStarted == probe.fn = "batch_loop"

Stripped(keywords) == [k \in 1..Len(keywords) |-> Strip(keywords[k])]

\* the keywords the orchestrator has been invoked on, in the order of the calls
Invoked ==
    [k \in 1..Len(log) |-> log[k].kw] \o
    (IF pc[MainProc] = "fetch" THEN <<call[MainProc].kw>> ELSE <<>>)

\* C28: every call terminates: an estimate call that is running eventually
\* returns (a value or an invalid-input error), and estimate_many over n keywords
\* eventually returns, having invoked the orchestrator exactly n times, once per
\* keyword in input order, with one result per keyword, even when every remote
\* call fails.
C28_EveryCallTerminates ==
    /\ \A p \in Procs : (pc[p] # "idle") ~> (pc[p] = "idle")
    /\ BatchStarted ~> (BatchStarted /\ probe.done)
    /\ [](BatchStarted =>
            /\ Len(Invoked) <= Len(probe.keywords)
            /\ Invoked = SubSeq(Stripped(probe.keywords), 1, Len(Invoked))
            /\ \A k \in 1..Len(log) : IsEstimate(log[k])
            /\ probe.done =>
                  /\ Invoked = Stripped(probe.keywords)
                  /\ Len(probe.results) = Len(probe.keywords)
                  /\ \A k \in 1..Len(log) :
                        /\ probe.results[k].keyword = Strip(probe.keywords[k])
                        /\ log[k].status = "ok" =>
                              /\ probe.results[k].volume = log[k].value
                              /\ probe.results[k].error = "none"
                        /\ log[k].status # "ok" =>
                              /\ probe.results[k].volume = 0
                              /\ probe.results[k].error = log[k].status)

\* a batch of MaxOps keywords has returned one volume per keyword after MaxOps
\* calls in which every remote request failed and both adapters fell back
C28_Witness ==
    /\ BatchStarted /\ probe.done
    /\ Len(probe.keywords) = MaxOps /\ Len(log) = MaxOps
    /\ \A k \in 1..MaxOps :
          /\ log[k].sources = {"google_trends", "amazon_autocomplete"}
          /\ log[k].heur = 2 /\ ~log[k].hit
          /\ probe.results[k].error = "none" /\ probe.results[k].volume >= 10

=============================================================================
